---- MODULE Spec2Model ----
(***************************************************************************)
(* Model of python/prime_generator.py: the odd-only sieve of Eratosthenes, *)
(* the segmented sieve built on it, the parallel driver (worker chunks,    *)
(* pool, monitor thread, k-way merge, sequential fallback) and the         *)
(* algorithm selection of generate_primes.                                 *)
(*                                                                         *)
(* bytearrays are functions over 0..len-1 with values in {0,1}; Python     *)
(* lists are sequences.                                                    *)
(***************************************************************************)
EXTENDS Integers, Sequences, FiniteSets, TLC

\* ---------------------------------------------------------------- bounds
MaxN == 30            \* largest bound n whose sieve is actually run
MaxSegmentSize == 4   \* largest explicit segment_size argument
MaxWorkers == 3       \* largest explicit num_workers argument
MaxCpu == 3           \* largest multiprocessing.cpu_count()

\* ------------------------------------------------------ program constants
SEGMENTED_SIEVE_THRESHOLD == 10000000
PARALLEL_SIEVE_THRESHOLD == 500000000
DEFAULT_SEGMENT_SIZE == 1000000

None == "None"

\* an optional integer: << >> for None, << k >> for the integer k
Nothing == << >>
Some(k) == << k >>

\* ------------------------------------------------------- Python built-ins
Min(a, b) == IF a < b THEN a ELSE b
Max(a, b) == IF a > b THEN a ELSE b

\* math.isqrt
Isqrt(x) == CHOOSE r \in 0..x : r * r <= x /\ (r + 1) * (r + 1) > x

\* Python's floor division a // b for b # 0 (the divisor may be negative)
FloorDiv(a, b) == IF b > 0 THEN a \div b ELSE (0 - a) \div (0 - b)

\* bytearray(k): k zero bytes
ZeroBuffer(k) == [i \in 0..(k - 1) |-> 0]

\* buf[start:stop:step] = b'\x00' * count, where count is the slice length
SliceAssignZero(buf, start, stop, step) ==
    [i \in DOMAIN buf |->
        IF i >= start /\ i < stop /\ (i - start) % step = 0 THEN 0 ELSE buf[i]]

\* buf[:k] = b'\x01' * k
SliceAssignOne(buf, k) == [i \in DOMAIN buf |-> IF i < k THEN 1 ELSE buf[i]]

\* bytes(view).find(1, from) over the first len bytes: lowest index or -1
BytesFind(data, len, from) ==
    IF \E i \in from..(len - 1) : data[i] = 1
    THEN CHOOSE i \in from..(len - 1) :
            data[i] = 1 /\ \A j \in from..(i - 1) : data[j] # 1
    ELSE 0 - 1

\* the extraction loop: idx = data.find(1, idx + 1) ... append(base + 2*idx)
RECURSIVE ExtractPrimes(_, _, _, _, _)
ExtractPrimes(data, len, idx, base, acc) ==
    LET nxt == BytesFind(data, len, idx + 1)
    IN  IF nxt = 0 - 1 THEN acc
        ELSE ExtractPrimes(data, len, nxt, base, Append(acc, base + 2 * nxt))

\* ------------------------------------------------- sieve_of_eratosthenes
\* start_idx = (current * current - 3) // 2
ClassicStartIdx_skip(current) == (current * current - 3) \div 2 + current
ClassicStartIdx(current) == (current * current - 3) \div 2

\* for current in range(3, max_check + 1, 2): mark the multiples of current
RECURSIVE ClassicMark(_, _, _, _)
ClassicMark(sieve, current, max_check, sieve_size) ==
    IF current > max_check THEN sieve
    ELSE LET idx == (current - 3) \div 2
             marked == IF sieve[idx] = 1
                       THEN SliceAssignZero(sieve, ClassicStartIdx(current),
                                            sieve_size, current)
                       ELSE sieve
         IN  ClassicMark(marked, current + 2, max_check, sieve_size)

\* the list returned by sieve_of_eratosthenes(n) for n >= 0
SieveOfEratosthenes(m) ==
    IF m <= 2 THEN << >>
    ELSE IF m <= 3 THEN << 2 >>
    ELSE LET sieve_size == (m - 3 + 1) \div 2
             sieve == ClassicMark(SliceAssignOne(ZeroBuffer(sieve_size), sieve_size),
                                  3, Isqrt(m), sieve_size)
         IN  ExtractPrimes(sieve, sieve_size, 0 - 1, 3, << 2 >>)

\* the arguments sieve_of_eratosthenes passes to its progress callback
RECURSIVE ClassicProgress(_, _, _)
ClassicProgress(current, max_check, acc) ==
    IF current > max_check THEN acc
    ELSE ClassicProgress(current + 2, max_check, Append(acc, (current - 3) \div 2))

\* ----------------------------------------------- _sieve_segment_odd_only
\* first odd multiple of p in the segment that is >= p * p
SegmentStart_even(p, odd_low) ==
    LET s0 == ((odd_low + p - 1) \div p) * p
    IN  IF s0 < p * p THEN p * p ELSE s0
SegmentStart(p, odd_low) ==
    LET s0 == ((odd_low + p - 1) \div p) * p
        s1 == IF s0 < p * p THEN p * p ELSE s0
    IN  IF s1 % 2 = 0 THEN s1 + p ELSE s1

\* for p in base_primes: clear every p-th cell from the first multiple on
RECURSIVE SegmentMark(_, _, _, _, _, _)
SegmentMark(buf, base_primes, k, odd_low, high, seg_len) ==
    IF k > Len(base_primes) THEN buf
    ELSE LET p == base_primes[k]
             start == SegmentStart(p, odd_low)
             adjusted_start == (start - odd_low) \div 2
         IN  IF start >= high
             THEN SegmentMark(buf, base_primes, k + 1, odd_low, high, seg_len)
             ELSE SegmentMark(SliceAssignZero(buf, adjusted_start, seg_len, p),
                              base_primes, k + 1, odd_low, high, seg_len)

\* _sieve_segment_odd_only(low, high, base_primes, is_prime): the primes
\* found and the buffer as the call leaves it
SieveSegmentOddOnly(low, high, base_primes, buf) ==
    LET two == IF low <= 2 /\ 2 < high THEN << 2 >> ELSE << >>
        o3 == Max(low, 3)
        odd_low == IF o3 % 2 = 0 THEN o3 + 1 ELSE o3
        seg_len == (high - odd_low + 1) \div 2
    IN  IF odd_low >= high \/ seg_len <= 0
        THEN [primes |-> two, is_prime |-> buf]
        ELSE LET marked == SegmentMark(SliceAssignOne(buf, seg_len), base_primes,
                                       1, odd_low, high, seg_len)
             IN  [primes |-> ExtractPrimes(marked, seg_len, 0 - 1, odd_low, two),
                  is_prime |-> marked]

\* ------------------------------------------------------- segmented_sieve
\* [p for p in sieve_of_eratosthenes(isqrt(n) + 1) if p > 2]
BasePrimesOdd(m) == SelectSeq(SieveOfEratosthenes(Isqrt(m) + 1), LAMBDA p : p > 2)

\* segments = (n + segment_size - 1) // segment_size
SegmentCount(m, size) == (m + size - 1) \div size

\* The buffer bytearray(segment_size); cells at index >= n are allocated by the
\* code but no segment of [0, n) reaches them, so they are not represented.
NewBuffer(m, size) == ZeroBuffer(Min(size, m))

\* one iteration of the segment loop for segment seg: the primes to extend
\* the list with and the buffer afterwards
SegmentBody(seg, m, size, base_primes, buf) ==
    LET low == seg * size
        high == Min(low + size, m)
    IN  IF high <= 2 THEN [primes |-> << >>, is_prime |-> buf]
        ELSE SieveSegmentOddOnly(low, high, base_primes, buf)

\* the segment loop over range(from, to) with one reused buffer
RECURSIVE SegmentLoop(_, _, _, _, _, _, _)
SegmentLoop(seg, to, m, size, base_primes, buf, acc) ==
    IF seg >= to THEN acc
    ELSE LET r == SegmentBody(seg, m, size, base_primes, buf)
         IN  SegmentLoop(seg + 1, to, m, size, base_primes, r.is_prime,
                         acc \o r.primes)

\* the list returned by segmented_sieve(n, segment_size) for n >= 0
SegmentedSieve(m, size) ==
    IF m <= 2 THEN << >>
    ELSE SegmentLoop(0, SegmentCount(m, size), m, size, BasePrimesOdd(m),
                     NewBuffer(m, size), << >>)

\* ------------------------------------------------ parallel_segmented_sieve
\* num_workers after the default (cpu_count - 1, at least 1) and the clamp
\* num_workers = min(num_workers, segments)
EffectiveWorkers(arg, cpus, segs) ==
    Min(IF arg = Nothing THEN Max(1, cpus - 1) ELSE arg[1], segs)

\* chunk_size = (segments + num_workers - 1) // num_workers
ChunkSize_floor(segs, workers) == FloorDiv(segs, workers)
ChunkSize(segs, workers) == FloorDiv(segs + workers - 1, workers)

\* end_seg = min(start_seg + chunk_size, segments)
ChunkEnd_short(start_seg, chunk_size, segs) == Min(start_seg + chunk_size, segs - 1)
ChunkEnd(start_seg, chunk_size, segs) == Min(start_seg + chunk_size, segs)

\* for worker_idx in range(num_workers): ... worker_args.append((start_seg, end_seg, ...))
RECURSIVE ChunkLoop(_, _, _, _, _)
ChunkLoop(worker_idx, workers, chunk_size, segs, acc) ==
    IF worker_idx >= workers THEN acc
    ELSE LET start_seg == worker_idx * chunk_size
         IN  IF start_seg >= segs THEN acc
             ELSE ChunkLoop(worker_idx + 1, workers, chunk_size, segs,
                            Append(acc, [start_seg |-> start_seg,
                                         end_seg |-> ChunkEnd(start_seg, chunk_size, segs)]))

\* worker_args for num_workers # 0
Chunks(segs, workers) == ChunkLoop(0, workers, ChunkSize(segs, workers), segs, << >>)

\* list(heapq.merge(*results)): repeatedly emit the smallest head, the
\* earliest list winning a tie
RECURSIVE KWayMerge(_, _)
KWayMerge(lists, acc) ==
    LET live == {i \in 1..Len(lists) : lists[i] # << >>}
    IN  IF live = {} THEN acc
        ELSE LET i == CHOOSE c \in live :
                        \A d \in live : \/ Head(lists[c]) < Head(lists[d])
                                        \/ (Head(lists[c]) = Head(lists[d]) /\ c <= d)
             IN  KWayMerge([lists EXCEPT ![i] = Tail(lists[i])],
                           Append(acc, Head(lists[i])))

\* except (OSError, multiprocessing.ProcessError, AttributeError)
CaughtExceptions == {"OSError", "ProcessError", "AttributeError"}

\* what can go wrong while the pool is created or the workers run: the
\* three caught classes and a serialization error (pickle.PicklingError)
DispatchFailures == CaughtExceptions \cup {"PicklingError"}

\* `with progress_counter.get_lock(): progress_counter.value += 1` in a
\* worker.  The counter is manager.Value('i', 0), a ValueProxy, which has no
\* get_lock attribute: the statement raises AttributeError when a counter
\* is supplied and is skipped when progress_counter is None.
CounterUpdate(counter) == IF counter = Nothing THEN "skipped" ELSE "AttributeError"

\* --------------------------------------------------------- generate_primes
\* if n < 0: raise ValueError (first statement of all four entry points)
InvalidBound_off(m) == m < 0 - 1
InvalidBound(m) == m < 0

UseSegmented_gt(m, force) ==
    \/ force \in {"segmented", "parallel"}
    \/ (force = None /\ m > SEGMENTED_SIEVE_THRESHOLD)
UseSegmented(m, force) ==
    \/ force \in {"segmented", "parallel"}
    \/ (force = None /\ m >= SEGMENTED_SIEVE_THRESHOLD)

UseParallel(m, par, force) ==
    \/ force = "parallel"
    \/ (par /\ m >= PARALLEL_SIEVE_THRESHOLD)

\* the function generate_primes calls for n > 2
SelectAlgorithm(m, par, force) ==
    IF UseSegmented(m, force)
    THEN IF UseParallel(m, par, force) THEN "parallel_segmented_sieve"
         ELSE "segmented_sieve"
    ELSE "sieve_of_eratosthenes"

\* ------------------------------------------------------------- reference
IsPrime(x) == x >= 2 /\ \A d \in 2..(x - 1) : x % d # 0
StrictlyIncreasing(s) == \A i \in 1..(Len(s) - 1) : s[i] < s[i + 1]
Elems(s) == {s[i] : i \in 1..Len(s)}
RECURSIVE SeqSum(_)
SeqSum(s) == IF s = << >> THEN 0 ELSE Head(s) + SeqSum(Tail(s))

\* ------------------------------------------------------------------ state
VARIABLES
    fn,               \* the function the caller invoked
    n,                \* its argument n
    segment_size,     \* segment_size of the segmented / parallel sieve
    num_workers_arg,  \* the num_workers argument (Nothing when omitted)
    has_cb,           \* a progress callback is supplied (show_progress)
    parallel,         \* generate_primes' parallel flag
    force_algorithm,  \* generate_primes' force_algorithm
    cpu_count,        \* multiprocessing.cpu_count()
    active,           \* the function the calling thread is executing
    pc,               \* the calling thread's position in it
    algo,             \* the function generate_primes selected
    in_fallback,      \* segmented_sieve runs from the except branch
    failure,          \* the dispatch failure that occurred (None if none)
    discarded,        \* a failure threw away segments the workers had sieved
    base_primes_odd, segments, seg_idx, primes, is_prime,
    num_workers,      \* the clamped worker count
    progress_counter, \* Nothing or Some(value of the shared counter)
    mon_pc,           \* monitor thread: none, check, read, done
    last_seen,        \* monitor_progress' last_seen
    stop_monitoring,  \* the threading.Event
    worker_args,      \* the chunks handed to pool.starmap
    wpc, wseg, wprimes, wbuf,   \* per worker: status, seg_idx, primes, buffer
    sieved,           \* some segment has been sieved
    cbLog,            \* the callback invocations: << thread, argument >>
    result,           \* the list returned
    raised            \* the exception raised to the caller (None if none)

inputs == << fn, n, segment_size, num_workers_arg, has_cb, parallel,
             force_algorithm, cpu_count >>
seqState == << base_primes_odd, segments, seg_idx, primes, is_prime >>
monState == << progress_counter, mon_pc, last_seen, stop_monitoring >>
workerState == << worker_args, wpc, wseg, wprimes, wbuf >>
vars == << inputs, active, pc, algo, in_fallback, failure, discarded, seqState, num_workers,
           monState, workerState, sieved, cbLog, result, raised >>

Bounds == (0 - 1)..MaxN
Thresholds == {SEGMENTED_SIEVE_THRESHOLD - 1, SEGMENTED_SIEVE_THRESHOLD,
               PARALLEL_SIEVE_THRESHOLD - 1, PARALLEL_SIEVE_THRESHOLD}
SegmentSizes == 1..MaxSegmentSize \cup {DEFAULT_SEGMENT_SIZE}
WorkerCounts == {Some(k) : k \in (0 - 1)..MaxWorkers} \cup {Nothing}
ForceValues == {None, "classic", "segmented", "parallel", "other"}

Init ==
    /\ fn \in {"sieve_of_eratosthenes", "segmented_sieve",
               "parallel_segmented_sieve", "generate_primes"}
    /\ n \in IF fn = "generate_primes" THEN Bounds \cup Thresholds ELSE Bounds
    /\ has_cb \in BOOLEAN
    /\ segment_size \in IF fn \in {"segmented_sieve", "parallel_segmented_sieve"}
                        THEN SegmentSizes ELSE {DEFAULT_SEGMENT_SIZE}
    /\ num_workers_arg \in IF fn = "parallel_segmented_sieve"
                           THEN WorkerCounts ELSE {Nothing}
    /\ parallel \in IF fn = "generate_primes" THEN BOOLEAN ELSE {FALSE}
    /\ force_algorithm \in IF fn = "generate_primes" THEN ForceValues ELSE {None}
    /\ cpu_count \in IF fn \in {"parallel_segmented_sieve", "generate_primes"}
                        /\ num_workers_arg = Nothing
                     THEN 1..MaxCpu ELSE {1}
    /\ active = fn
    /\ pc = "entry"
    /\ algo = None
    /\ in_fallback = FALSE
    /\ failure = None
    /\ discarded = FALSE
    /\ base_primes_odd = << >>
    /\ segments = 0
    /\ seg_idx = 0
    /\ primes = << >>
    /\ is_prime = << >>
    /\ num_workers = 0
    /\ progress_counter = Nothing
    /\ mon_pc = "none"
    /\ last_seen = 0
    /\ stop_monitoring = FALSE
    /\ worker_args = << >>
    /\ wpc = << >>
    /\ wseg = << >>
    /\ wprimes = << >>
    /\ wbuf = << >>
    /\ sieved = FALSE
    /\ cbLog = << >>
    /\ result = << >>
    /\ raised = None

\* raise ValueError(...) at the top of an entry point
RaiseValueError ==
    /\ raised' = "ValueError"
    /\ pc' = "done"
    /\ UNCHANGED << inputs, active, algo, in_fallback, failure, discarded, seqState,
                    num_workers, monState, workerState, sieved, cbLog, result >>

\* `return []` for n <= 2
ReturnEmpty ==
    /\ result' = << >>
    /\ pc' = "done"
    /\ UNCHANGED << inputs, active, algo, in_fallback, failure, discarded, seqState,
                    num_workers, monState, workerState, sieved, cbLog, raised >>

\* generate_primes up to the call of the selected algorithm, which then runs
\* with generate_primes' arguments (segment_size = DEFAULT_SEGMENT_SIZE,
\* num_workers omitted) and whose return value generate_primes returns
Generate ==
    /\ active = "generate_primes"
    /\ pc = "entry"
    /\ IF InvalidBound(n) THEN RaiseValueError
       ELSE IF n <= 2 THEN ReturnEmpty
       ELSE /\ algo' = SelectAlgorithm(n, parallel, force_algorithm)
            /\ active' = algo'
            /\ pc' = "entry"
            /\ UNCHANGED << inputs, in_fallback, failure, discarded, seqState, num_workers,
                            monState, workerState, sieved, cbLog, result, raised >>

\* sieve_of_eratosthenes, the whole call
Classic ==
    /\ active = "sieve_of_eratosthenes"
    /\ pc = "entry"
    /\ n <= MaxN
    /\ IF InvalidBound(n) THEN RaiseValueError
       ELSE /\ result' = SieveOfEratosthenes(n)
            /\ cbLog' = IF has_cb /\ n > 3
                        THEN LET a == ClassicProgress(3, Isqrt(n), << >>)
                             IN  cbLog \o [i \in 1..Len(a) |-> << "main", a[i] >>]
                        ELSE cbLog
            /\ pc' = "done"
            /\ UNCHANGED << inputs, active, algo, in_fallback, failure, discarded, seqState,
                            num_workers, monState, workerState, sieved, raised >>

\* the state of segmented_sieve when its segment loop starts
SegmentedInit_floor(m, size) ==
    [base_primes_odd |-> BasePrimesOdd(m), segments |-> m \div size,
     primes |-> << >>, is_prime |-> NewBuffer(m, size)]
SegmentedInit(m, size) ==
    [base_primes_odd |-> BasePrimesOdd(m), segments |-> SegmentCount(m, size),
     primes |-> << >>, is_prime |-> NewBuffer(m, size)]

\* segmented_sieve from its first statement to the start of the loop
SegStart ==
    /\ active = "segmented_sieve"
    /\ pc = "entry"
    /\ n <= MaxN
    /\ IF InvalidBound(n) THEN RaiseValueError
       ELSE IF n <= 2 THEN ReturnEmpty
       ELSE LET s == SegmentedInit(n, segment_size)
            IN  /\ base_primes_odd' = s.base_primes_odd
                /\ segments' = s.segments
                /\ primes' = s.primes
                /\ is_prime' = s.is_prime
                /\ seg_idx' = 0
                /\ pc' = "seg_loop"
                /\ UNCHANGED << inputs, active, algo, in_fallback, failure,
                                discarded, num_workers, monState, workerState, sieved, cbLog,
                                result, raised >>

\* one iteration of segmented_sieve's loop, the progress callback included
SegStep_lowSilent ==
    /\ active = "segmented_sieve"
    /\ pc = "seg_loop"
    /\ seg_idx < segments
    /\ LET r == SegmentBody(seg_idx, n, segment_size, base_primes_odd, is_prime)
       IN  /\ primes' = primes \o r.primes
           /\ is_prime' = r.is_prime
    /\ sieved' = (sieved \/ Min(seg_idx * segment_size + segment_size, n) > 2)
    /\ cbLog' = IF has_cb /\ Min(seg_idx * segment_size + segment_size, n) > 2
                 THEN Append(cbLog, << "main", seg_idx + 1 >>) ELSE cbLog
    /\ seg_idx' = seg_idx + 1
    /\ UNCHANGED << inputs, active, pc, algo, in_fallback, failure, discarded, base_primes_odd,
                    segments, num_workers, monState, workerState, result, raised >>
SegStep ==
    /\ active = "segmented_sieve"
    /\ pc = "seg_loop"
    /\ seg_idx < segments
    /\ LET r == SegmentBody(seg_idx, n, segment_size, base_primes_odd, is_prime)
       IN  /\ primes' = primes \o r.primes
           /\ is_prime' = r.is_prime
    /\ sieved' = (sieved \/ Min(seg_idx * segment_size + segment_size, n) > 2)
    /\ cbLog' = IF has_cb THEN Append(cbLog, << "main", seg_idx + 1 >>) ELSE cbLog
    /\ seg_idx' = seg_idx + 1
    /\ UNCHANGED << inputs, active, pc, algo, in_fallback, failure, discarded, base_primes_odd,
                    segments, num_workers, monState, workerState, result, raised >>

\* `return primes`: to the caller, or into the except branch of
\* parallel_segmented_sieve, whose finally clause runs before it returns
SegReturn_cbKeepsList ==
    /\ active = "segmented_sieve"
    /\ pc = "seg_loop"
    /\ seg_idx >= segments
    /\ result' = IF has_cb THEN << >> ELSE primes
    /\ IF in_fallback
       THEN active' = "parallel_segmented_sieve" /\ pc' = "finally"
       ELSE active' = active /\ pc' = "done"
    /\ UNCHANGED << inputs, algo, in_fallback, failure, discarded, seqState, num_workers,
                    monState, workerState, sieved, cbLog, raised >>
SegReturn ==
    /\ active = "segmented_sieve"
    /\ pc = "seg_loop"
    /\ seg_idx >= segments
    /\ result' = primes
    /\ IF in_fallback
       THEN active' = "parallel_segmented_sieve" /\ pc' = "finally"
       ELSE active' = active /\ pc' = "done"
    /\ UNCHANGED << inputs, algo, in_fallback, failure, discarded, seqState, num_workers,
                    monState, workerState, sieved, cbLog, raised >>

\* parallel_segmented_sieve up to the clamp of num_workers
ParStart ==
    /\ active = "parallel_segmented_sieve"
    /\ pc = "entry"
    /\ n <= MaxN
    /\ IF InvalidBound(n) THEN RaiseValueError
       ELSE IF n <= 2 THEN ReturnEmpty
       ELSE /\ base_primes_odd' = BasePrimesOdd(n)
            /\ segments' = SegmentCount(n, segment_size)
            /\ num_workers' = EffectiveWorkers(num_workers_arg, cpu_count,
                                               SegmentCount(n, segment_size))
            /\ pc' = "progress"
            /\ UNCHANGED << inputs, active, algo, in_fallback, failure, discarded, seg_idx,
                            primes, is_prime, monState, workerState, sieved, cbLog,
                            result, raised >>

\* `if progress_callback:` create the shared counter and start the monitor
\* thread; OSError / ImportError leave both None
ParProgress ==
    /\ active = "parallel_segmented_sieve"
    /\ pc = "progress"
    /\ \/ /\ has_cb
          /\ progress_counter' = Some(0)
          /\ mon_pc' = "check"
          /\ last_seen' = 0
       \/ /\ has_cb
          /\ UNCHANGED << progress_counter, mon_pc, last_seen >>
       \/ /\ ~has_cb
          /\ UNCHANGED << progress_counter, mon_pc, last_seen >>
    /\ pc' = "chunk"
    /\ UNCHANGED << inputs, active, algo, in_fallback, failure, discarded, seqState,
                    num_workers, stop_monitoring, workerState, sieved, cbLog,
                    result, raised >>

\* the chunking; num_workers = 0 divides by zero outside the try statement
ParChunk ==
    /\ active = "parallel_segmented_sieve"
    /\ pc = "chunk"
    /\ IF num_workers = 0
       THEN /\ raised' = "ZeroDivisionError"
            /\ pc' = "done"
            /\ UNCHANGED worker_args
       ELSE /\ worker_args' = Chunks(segments, num_workers)
            /\ pc' = "pool"
            /\ UNCHANGED raised
    /\ UNCHANGED << inputs, active, algo, in_fallback, failure, discarded, seqState,
                    num_workers, monState, wpc, wseg, wprimes, wbuf, sieved, cbLog,
                    result >>

\* an exception f leaves the with statement: the pool is terminated, then a
\* caught class runs the fallback and any other class goes to the finally
\* clause and on to the caller
Handle(f) ==
    /\ discarded' = (discarded \/ \E w \in 1..Len(wprimes) : wprimes[w] # << >>)
    /\ wpc' = << >>
    /\ wseg' = << >>
    /\ wprimes' = << >>
    /\ wbuf' = << >>
    /\ IF f \in CaughtExceptions
       THEN /\ active' = "segmented_sieve"
            /\ pc' = "entry"
            /\ in_fallback' = TRUE
            /\ UNCHANGED raised
       ELSE /\ raised' = f
            /\ pc' = "finally"
            /\ UNCHANGED << active, in_fallback >>

\* multiprocessing.Pool(processes=num_workers) and the submission of the tasks
ParPool ==
    /\ active = "parallel_segmented_sieve"
    /\ pc = "pool"
    /\ IF num_workers < 1
       THEN /\ Handle("ValueError")
            /\ UNCHANGED failure
       ELSE \/ /\ wpc' = [w \in 1..Len(worker_args) |->
                            IF worker_args[w].start_seg < worker_args[w].end_seg
                            THEN "run" ELSE "done"]
               /\ wseg' = [w \in 1..Len(worker_args) |-> worker_args[w].start_seg]
               /\ wprimes' = [w \in 1..Len(worker_args) |-> << >>]
               /\ wbuf' = [w \in 1..Len(worker_args) |-> NewBuffer(n, segment_size)]
               /\ pc' = "starmap"
               /\ UNCHANGED << active, in_fallback, failure, discarded, raised >>
            \/ \E f \in DispatchFailures :
                  /\ failure' = f
                  /\ Handle(f)
    /\ UNCHANGED << inputs, algo, seqState, num_workers, monState, worker_args,
                    sieved, cbLog, result >>

\* one iteration of _worker_process_segment_chunk's loop in worker w
WorkerStep(w) ==
    /\ pc = "starmap"
    /\ w \in 1..Len(wpc)
    /\ wpc[w] = "run"
    /\ LET r == SegmentBody(wseg[w], n, segment_size, base_primes_odd, wbuf[w])
           u == CounterUpdate(progress_counter)
       IN  /\ wprimes' = [wprimes EXCEPT ![w] = wprimes[w] \o r.primes]
           /\ wbuf' = [wbuf EXCEPT ![w] = r.is_prime]
           /\ IF u = "skipped"
              THEN /\ wseg' = [wseg EXCEPT ![w] = wseg[w] + 1]
                   /\ wpc' = [wpc EXCEPT ![w] =
                                IF wseg[w] + 1 >= worker_args[w].end_seg
                                THEN "done" ELSE "run"]
              ELSE /\ wseg' = wseg
                   /\ wpc' = [wpc EXCEPT ![w] = u]
    /\ sieved' = (sieved \/ Min(wseg[w] * segment_size + segment_size, n) > 2)
    /\ UNCHANGED << inputs, active, pc, algo, in_fallback, failure, discarded, seqState,
                    num_workers, monState, worker_args, cbLog, result, raised >>

\* a dispatch failure while the workers run
DispatchFailure ==
    /\ pc = "starmap"
    /\ \E f \in DispatchFailures :
          /\ failure' = f
          /\ Handle(f)
    /\ UNCHANGED << inputs, algo, seqState, num_workers, monState, worker_args,
                    sieved, cbLog, result >>

\* pool.starmap returns once every task has finished: it re-raises the
\* exception of a failed task, else the results are merged
StarmapReturn ==
    /\ pc = "starmap"
    /\ \A w \in 1..Len(wpc) : wpc[w] # "run"
    /\ IF \E w \in 1..Len(wpc) : wpc[w] # "done"
       THEN LET w == CHOOSE v \in 1..Len(wpc) : wpc[v] # "done"
            IN  /\ failure' = wpc[w]
                /\ Handle(wpc[w])
                /\ UNCHANGED result
       ELSE /\ result' = KWayMerge(wprimes, << >>)
            /\ pc' = "finally"
            /\ wpc' = << >>
            /\ wseg' = << >>
            /\ wprimes' = << >>
            /\ wbuf' = << >>
            /\ UNCHANGED << active, in_fallback, failure, discarded, raised >>
    /\ UNCHANGED << inputs, algo, seqState, num_workers, monState, worker_args,
                    sieved, cbLog >>

\* finally: `if monitor_thread is not None and monitor_thread.is_alive()`
\* set the event and go on to join; otherwise the call is over
ParFinally ==
    /\ active = "parallel_segmented_sieve"
    /\ pc = "finally"
    /\ IF mon_pc \in {"check", "read"}
       THEN stop_monitoring' = TRUE /\ pc' = "join"
       ELSE stop_monitoring' = stop_monitoring /\ pc' = "done"
    /\ UNCHANGED << inputs, active, algo, in_fallback, failure, discarded, seqState,
                    num_workers, progress_counter, mon_pc, last_seen, workerState,
                    sieved, cbLog, result, raised >>

\* monitor_thread.join(timeout=1.0) returns because the thread has ended
ParJoin ==
    /\ active = "parallel_segmented_sieve"
    /\ pc = "join"
    /\ mon_pc = "done"
    /\ pc' = "done"
    /\ UNCHANGED << inputs, active, algo, in_fallback, failure, discarded, seqState,
                    num_workers, monState, workerState, sieved, cbLog, result,
                    raised >>

\* monitor_thread.join(timeout=1.0) returns because the second has elapsed
ParJoinTimeout_untimed ==
    /\ active = "parallel_segmented_sieve"
    /\ pc = "join"
    /\ mon_pc = "done"
    /\ pc' = "done"
    /\ UNCHANGED << inputs, active, algo, in_fallback, failure, discarded, seqState,
                    num_workers, monState, workerState, sieved, cbLog, result,
                    raised >>
ParJoinTimeout ==
    /\ active = "parallel_segmented_sieve"
    /\ pc = "join"
    /\ mon_pc # "done"
    /\ pc' = "done"
    /\ UNCHANGED << inputs, active, algo, in_fallback, failure, discarded, seqState,
                    num_workers, monState, workerState, sieved, cbLog, result,
                    raised >>

\* monitor_progress: `while not stop_monitoring.is_set()`
MonCheck ==
    /\ mon_pc = "check"
    /\ mon_pc' = IF stop_monitoring THEN "done" ELSE "read"
    /\ UNCHANGED << inputs, active, pc, algo, in_fallback, failure, discarded, seqState,
                    num_workers, progress_counter, last_seen, stop_monitoring,
                    workerState, sieved, cbLog, result, raised >>

\* monitor_progress: read the counter, report the delta, sleep
MonRead_everyPoll ==
    /\ mon_pc = "read"
    /\ LET current == progress_counter[1]
       IN  IF current >= last_seen /\ has_cb
           THEN /\ cbLog' = Append(cbLog, << "monitor", current - last_seen >>)
                /\ last_seen' = current
           ELSE UNCHANGED << cbLog, last_seen >>
    /\ mon_pc' = "check"
    /\ UNCHANGED << inputs, active, pc, algo, in_fallback, failure, discarded, seqState,
                    num_workers, progress_counter, stop_monitoring, workerState,
                    sieved, result, raised >>
MonRead ==
    /\ mon_pc = "read"
    /\ LET current == progress_counter[1]
       IN  IF current > last_seen /\ has_cb
           THEN /\ cbLog' = Append(cbLog, << "monitor", current - last_seen >>)
                /\ last_seen' = current
           ELSE UNCHANGED << cbLog, last_seen >>
    /\ mon_pc' = "check"
    /\ UNCHANGED << inputs, active, pc, algo, in_fallback, failure, discarded, seqState,
                    num_workers, progress_counter, stop_monitoring, workerState,
                    sieved, result, raised >>

Next ==
    \/ Generate
    \/ Classic
    \/ SegStart
    \/ SegStep
    \/ SegReturn
    \/ ParStart
    \/ ParProgress
    \/ ParChunk
    \/ ParPool
    \/ \E w \in 1..Len(wpc) : WorkerStep(w)
    \/ DispatchFailure
    \/ StarmapReturn
    \/ ParFinally
    \/ ParJoin
    \/ ParJoinTimeout
    \/ MonCheck
    \/ MonRead

Spec == Init /\ [][Next]_vars

\* ------------------------------------------- a call whose monitor may stall
\* a direct call of parallel_segmented_sieve
LiveInit == Init /\ fn = "parallel_segmented_sieve"

LiveNext ==
    \/ SegStart
    \/ SegStep
    \/ SegReturn
    \/ ParStart
    \/ ParProgress
    \/ ParChunk
    \/ ParPool
    \/ \E w \in 1..Len(wpc) : WorkerStep(w)
    \/ DispatchFailure
    \/ StarmapReturn
    \/ ParFinally
    \/ ParJoin
    \/ ParJoinTimeout
    \/ MonCheck
    \/ MonRead

\* The calling thread runs its finally clause to the end, and a join with
\* timeout=1.0 returns after a second at the latest. Nothing is assumed of
\* the monitor thread: it may stop for ever at any point of its loop, the
\* callback it is executing included.
LiveSpec ==
    /\ LiveInit
    /\ [][LiveNext]_vars
    /\ WF_vars(ParFinally)
    /\ WF_vars(ParJoin)
    /\ WF_vars(ParJoinTimeout)

\* ----------------------------------------------------------------- claims
Returned == pc = "done" /\ raised = None
CallbackArgs == [i \in 1..Len(cbLog) |-> cbLog[i][2]]
WorkerCountGiven ==
    num_workers_arg = Nothing \/ num_workers_arg[1] >= 1

\* C1: for n > 2, segment_size >= 1 and a worker count >= 1, under every
\* interleaving of the workers, the list parallel_segmented_sieve returns is
\* strictly increasing and equals segmented_sieve(n, segment_size).
C1_ParallelEqualsSegmented ==
    (fn = "parallel_segmented_sieve" /\ Returned /\ n > 2 /\ WorkerCountGiven)
        => /\ result = SegmentedSieve(n, segment_size)
           /\ StrictlyIncreasing(result)

C1_Witness ==
    /\ fn = "parallel_segmented_sieve"
    /\ Returned
    /\ ~in_fallback
    /\ Len(worker_args) >= 2
    /\ segments > Len(worker_args)
    /\ Len(result) >= 5

\* C2: for n >= 0 and every segment_size >= 1, segmented_sieve, run segment by
\* segment over one reused buffer, returns the list sieve_of_eratosthenes(n)
\* returns.
C2_SegmentedEqualsClassic ==
    (fn = "segmented_sieve" /\ pc = "done" /\ n >= 0)
        => raised = None /\ result = SieveOfEratosthenes(n)

C2_Witness ==
    /\ fn = "segmented_sieve"
    /\ Returned
    /\ segment_size > 1
    /\ segments >= 4
    /\ Len(result) >= 8

\* C3: for n >= 0, sieve_of_eratosthenes returns exactly the primes below n
\* (by trial division), strictly increasing, and the empty list for n <= 2.
C3_ClassicIsPrimesBelow ==
    (fn = "sieve_of_eratosthenes" /\ pc = "done" /\ n >= 0)
        => /\ raised = None
           /\ StrictlyIncreasing(result)
           /\ Elems(result) = {x \in 0..n : x < n /\ IsPrime(x)}
           /\ (n <= 2 => result = << >>)

C3_Witness ==
    /\ fn = "sieve_of_eratosthenes"
    /\ Returned
    /\ n > 25
    /\ Len(result) = 9

\* C4: when parallel_segmented_sieve with n > 2 and a progress callback
\* returns, the deltas delivered to the callback sum to the segment count.
C4_ProgressTotal ==
    (fn = "parallel_segmented_sieve" /\ Returned /\ n > 2 /\ has_cb
     /\ mon_pc # "none")
        => SeqSum(CallbackArgs) = SegmentCount(n, segment_size)

\* C5: when worker dispatch fails, at pool creation or while the workers run,
\* the value parallel_segmented_sieve returns is segmented_sieve(n, segment_size).
C5_FallbackEqualsSegmented ==
    (fn = "parallel_segmented_sieve" /\ Returned /\ failure # None)
        => result = SegmentedSieve(n, segment_size)

C5_Witness ==
    /\ fn = "parallel_segmented_sieve"
    /\ Returned
    /\ failure = "OSError"
    /\ discarded
    /\ segments >= 3
    /\ Len(result) >= 5

\* C6: no dispatch failure, a serialization error included, is raised to the
\* caller: every one makes parallel_segmented_sieve fall back and return.
C6_NoDispatchFailureRaised ==
    (pc = "done" /\ failure # None) => (raised = None /\ in_fallback)

\* C7: whenever the monitor thread was started, the stop event is set and the
\* thread has terminated by the time the call returns or raises.
C7_MonitorStoppedBeforeExit ==
    (pc = "done" /\ mon_pc # "none") => (stop_monitoring /\ mon_pc = "done")

\* C8: for n > 2 and either value of the parallel flag, force_algorithm
\* 'classic' runs sieve_of_eratosthenes, 'segmented' runs segmented_sieve and
\* 'parallel' runs parallel_segmented_sieve.
C8_ForcedPathRuns ==
    (fn = "generate_primes" /\ n > 2 /\ algo # None)
        => /\ force_algorithm = "classic" => algo = "sieve_of_eratosthenes"
           /\ force_algorithm = "segmented" => algo = "segmented_sieve"
           /\ force_algorithm = "parallel" => algo = "parallel_segmented_sieve"

\* the selection the thresholds prescribe when nothing is forced
BelowSegmented == n < SEGMENTED_SIEVE_THRESHOLD
SequentialRange ==
    n >= SEGMENTED_SIEVE_THRESHOLD /\ (~parallel \/ n < PARALLEL_SIEVE_THRESHOLD)
ParallelRange == parallel /\ n >= PARALLEL_SIEVE_THRESHOLD
ThresholdSelection ==
    /\ BelowSegmented => algo = "sieve_of_eratosthenes"
    /\ SequentialRange => algo = "segmented_sieve"
    /\ ParallelRange <=> algo = "parallel_segmented_sieve"
    /\ Cardinality({c \in {1, 2, 3} : \/ (c = 1 /\ BelowSegmented)
                                      \/ (c = 2 /\ SequentialRange)
                                      \/ (c = 3 /\ ParallelRange)}) = 1
GenerateSelected ==
    fn = "generate_primes" /\ ~(active = "generate_primes" /\ pc = "entry")

\* C9 as stated: with no force_algorithm, for every n, generate_primes runs
\* the classic sieve below SEGMENTED_SIEVE_THRESHOLD, the parallel sieve
\* exactly when parallel and n >= PARALLEL_SIEVE_THRESHOLD, and the
\* sequential segmented sieve otherwise.
C9_SelectionForEveryN ==
    (GenerateSelected /\ force_algorithm = None) => ThresholdSelection

\* C9 amended: the same selection, for every n > 2 (for n <= 2 generate_primes
\* returns or raises before any algorithm is selected).
C9_SelectionAboveTwo ==
    (GenerateSelected /\ force_algorithm = None /\ n > 2) => ThresholdSelection

C9_Witness ==
    /\ GenerateSelected
    /\ force_algorithm = None
    /\ parallel
    /\ n = PARALLEL_SIEVE_THRESHOLD
    /\ algo = "parallel_segmented_sieve"

\* C10: for n < 0 each of the four entry points raises ValueError as its first
\* step: no algorithm selected, no segment sieved, no callback invoked, no
\* counter or monitor thread created, no worker started.
C10_NegativeBoundRaisesFirst ==
    n < 0 => /\ pc = "entry" \/ (pc = "done" /\ raised = "ValueError")
             /\ active = fn
             /\ algo = None
             /\ ~sieved
             /\ cbLog = << >>
             /\ primes = << >>
             /\ progress_counter = Nothing
             /\ mon_pc = "none"
             /\ worker_args = << >>
             /\ wpc = << >>
             /\ result = << >>

C10_Witness ==
    /\ n < 0
    /\ fn = "parallel_segmented_sieve"
    /\ has_cb
    /\ raised = "ValueError"

\* parallel_segmented_sieve has computed segments and num_workers
WorkersComputed ==
    /\ fn = "parallel_segmented_sieve" \/ algo = "parallel_segmented_sieve"
    /\ segments > 0

\* C11: for n > 2 and every num_workers argument (0 and negative values
\* included) the worker count used for chunking and for the pool lies in
\* 1..segments, and when the argument is omitted it is max(1, cpu_count - 1)
\* clamped to at most segments.
C11_WorkersClamped ==
    WorkersComputed
        => /\ num_workers \in 1..segments
           /\ num_workers_arg = Nothing
                => num_workers = Min(Max(1, cpu_count - 1), segments)

\* the chunking loop has run with a worker count in 1..segments
ChunksBuilt ==
    /\ WorkersComputed
    /\ num_workers \in 1..segments
    /\ worker_args # << >> \/ pc \in {"pool", "starmap"}

\* the workers whose chunk [start_seg, end_seg) holds segment s
Owners(s) ==
    {w \in 1..Len(worker_args) :
        worker_args[w].start_seg <= s /\ s < worker_args[w].end_seg}

\* C12: for segments >= 1 and a worker count in 1..segments the chunks are
\* non-empty, disjoint, in increasing order and cover 0..segments-1: every
\* segment index belongs to exactly one worker, worker i gets
\* [i*chunk_size, min((i+1)*chunk_size, segments)), and no chunk is created
\* for a start index >= segments.
C12_ChunksPartitionSegments ==
    ChunksBuilt
        => /\ Len(worker_args) \in 1..num_workers
           /\ \A w \in 1..Len(worker_args) :
                 /\ worker_args[w].start_seg = (w - 1) * ChunkSize(segments, num_workers)
                 /\ worker_args[w].start_seg < worker_args[w].end_seg
                 /\ worker_args[w].start_seg < segments
                 /\ worker_args[w].end_seg <= segments
           /\ \A v, w \in 1..Len(worker_args) :
                 v < w => worker_args[v].end_seg <= worker_args[w].start_seg
           /\ \A s \in 0..(segments - 1) : Cardinality(Owners(s)) = 1

\* three workers requested, two chunks created: the third start index is
\* past the last segment
C12_Witness ==
    /\ ChunksBuilt
    /\ Len(worker_args) >= 2
    /\ Len(worker_args) < num_workers

\* the primes below m in increasing order, by trial division
RECURSIVE PrimesUpTo(_)
PrimesUpTo(m) ==
    IF m < 2 THEN << >>
    ELSE IF IsPrime(m) THEN Append(PrimesUpTo(m - 1), m) ELSE PrimesUpTo(m - 1)

PrimesBelow(m) == PrimesUpTo(m - 1)

WorkersFinished ==
    /\ pc = "starmap"
    /\ Len(wpc) > 0
    /\ \A w \in 1..Len(wpc) : wpc[w] # "run"

\* C14: when a shared progress counter is supplied, each worker increments it
\* once per segment of its chunk under the counter's lock, so no update is
\* lost and the counter equals the total segment count once all workers have
\* finished.
C14_CounterReachesTotal ==
    (WorkersFinished /\ progress_counter # Nothing)
        => /\ progress_counter = Some(segments)
           /\ \A w \in 1..Len(wpc) : wpc[w] = "done"

\* C15: for n > 2 and segment_size >= 1, segmented_sieve with a progress
\* callback calls it exactly ceil(n / segment_size) times, once after each
\* segment in increasing order, with the arguments 1, 2, ..., segments, the
\* segments that lie entirely below 2 included.
C15_CallbackOncePerSegment ==
    /\ (fn = "segmented_sieve" /\ has_cb /\ n > 2 /\ pc = "seg_loop")
          => cbLog = [i \in 1..seg_idx |-> << "main", i >>]
    /\ (fn = "segmented_sieve" /\ has_cb /\ n > 2 /\ Returned)
          => /\ Len(cbLog) * segment_size >= n
             /\ (Len(cbLog) - 1) * segment_size < n
             /\ cbLog = [i \in 1..Len(cbLog) |-> << "main", i >>]

\* segment_size 1: segments 0 and 1 lie entirely below 2 and are reported
C15_Witness ==
    /\ fn = "segmented_sieve"
    /\ has_cb
    /\ Returned
    /\ segment_size = 1
    /\ n >= 5
    /\ Len(cbLog) = n

\* the results are complete and the finally clause is about to run
ResultsComplete ==
    /\ active = "parallel_segmented_sieve"
    /\ pc = "finally"
    /\ raised = None

\* C16: a monitor thread that never observes the stop signal does not keep
\* parallel_segmented_sieve from returning: once the results are complete
\* the call eventually returns the complete list.
C16_StuckMonitorDoesNotBlock ==
    ResultsComplete ~> (Returned /\ result = PrimesBelow(n))

\* the call has returned while the monitor is still inside its loop, the
\* stop signal set and not yet observed
C16_Witness ==
    /\ fn = "parallel_segmented_sieve"
    /\ Returned
    /\ stop_monitoring
    /\ mon_pc = "read"
    /\ Len(result) >= 5

\* the sequential fallback is running on the calling thread
FallbackRunning == in_fallback /\ active = "segmented_sieve"

\* C17: during one call of parallel_segmented_sieve the progress callback is
\* never run by two threads at once: while the sequential fallback is calling
\* it on the calling thread, every call of the callback is the fallback's and
\* none is the monitor thread's.
C17_MonitorSilentDuringFallback ==
    [][(FallbackRunning /\ cbLog' # cbLog)
          => /\ Len(cbLog') = Len(cbLog) + 1
             /\ cbLog'[Len(cbLog')][1] = "main"]_vars

\* the fallback has called the callback while the monitor thread is alive
\* and about to read the counter
C17_Witness ==
    /\ FallbackRunning
    /\ pc = "seg_loop"
    /\ mon_pc = "read"
    /\ ~stop_monitoring
    /\ Len(cbLog) >= 2
====
